---- MODULE Spec2Model ----
(***************************************************************************)
(* Model of src/src/gff_stats.py: compute_stats_from_gff, the single-pass  *)
(* aggregator over the lines of a GFF file.                                *)
(*                                                                         *)
(* Strings are sequences of one-character strings, so that str.strip,      *)
(* str.split("\t"), str.startswith and int() are computed as Python        *)
(* computes them.  avg_length values are held in tenths (84.3 is 843).     *)
(***************************************************************************)
EXTENDS Integers, Sequences, FiniteSets, TLC

(***************************************************************************)
(* Bounds of the model.                                                    *)
(***************************************************************************)
MaxLines == 3
MaxStrandLines == 9
MaxShardLines == 4

(***************************************************************************)
(* Characters and the string methods the loop uses.                        *)
(***************************************************************************)
Tab == "\t"
Newline == "\n"
Space == " "
Whitespace == {Space, Tab, Newline}
Digits == {"0", "1", "2", "3", "4", "5", "6", "7", "8", "9"}

DigitValue(c) ==
    CASE c = "0" -> 0 [] c = "1" -> 1 [] c = "2" -> 2 [] c = "3" -> 3
      [] c = "4" -> 4 [] c = "5" -> 5 [] c = "6" -> 6 [] c = "7" -> 7
      [] c = "8" -> 8 [] c = "9" -> 9

RECURSIVE LStrip(_)
LStrip(s) ==
    IF s # <<>> /\ Head(s) \in Whitespace THEN LStrip(Tail(s)) ELSE s

RECURSIVE RStrip(_)
RStrip(s) ==
    IF s # <<>> /\ s[Len(s)] \in Whitespace
    THEN RStrip(SubSeq(s, 1, Len(s) - 1))
    ELSE s

\* str.strip(): remove leading and trailing whitespace (tabs included).
Strip(s) == RStrip(LStrip(s))

\* str.startswith("#")
StartsWithHash(s) == s # <<>> /\ Head(s) = "#"

\* str.split("\t"): always at least one field; empty fields are kept.
RECURSIVE SplitTab(_, _, _)
SplitTab(s, cur, acc) ==
    IF s = <<>> THEN Append(acc, cur)
    ELSE IF Head(s) = Tab THEN SplitTab(Tail(s), <<>>, Append(acc, cur))
    ELSE SplitTab(Tail(s), Append(cur, Head(s)), acc)

Split(s) == SplitTab(s, <<>>, <<>>)

(***************************************************************************)
(* int(str): optional surrounding whitespace, optional sign, then digits   *)
(* with single underscores allowed between digits.  Anything else raises   *)
(* ValueError.                                                             *)
(***************************************************************************)
IntBody(s) ==
    LET t == Strip(s)
    IN  IF t # <<>> /\ Head(t) \in {"+", "-"} THEN Tail(t) ELSE t

IntNegative(s) ==
    LET t == Strip(s) IN t # <<>> /\ Head(t) = "-"

IntBodyValid(b) ==
    /\ b # <<>>
    /\ \A i \in 1..Len(b) : b[i] \in Digits \cup {"_"}
    /\ b[1] \in Digits
    /\ b[Len(b)] \in Digits
    /\ \A i \in 1..(Len(b) - 1) : ~(b[i] = "_" /\ b[i + 1] = "_")

RECURSIVE DigitsValue(_, _)
DigitsValue(b, acc) ==
    IF b = <<>> THEN acc
    ELSE IF Head(b) = "_" THEN DigitsValue(Tail(b), acc)
    ELSE DigitsValue(Tail(b), 10 * acc + DigitValue(Head(b)))

\* TRUE when int(s) raises ValueError
IntRaises(s) == ~IntBodyValid(IntBody(s))

\* the value of int(s) when it does not raise
IntValue(s) ==
    LET v == DigitsValue(IntBody(s), 0)
    IN  IF IntNegative(s) THEN 0 - v ELSE v


(***************************************************************************)
(* Dictionaries: functions whose domain is the key set.                    *)
(***************************************************************************)
EmptyDict == [k \in {} |-> 0]

\* d.get(k, 0), and the read of a defaultdict(int)
Get(d, k) == IF k \in DOMAIN d THEN d[k] ELSE 0

IncrAssign(d, k, n) ==
    [x \in DOMAIN d \cup {k} |-> IF x = k THEN n ELSE d[x]]

\* d[k] += n on a defaultdict(int)
Incr(d, k, n) ==
    [x \in DOMAIN d \cup {k} |-> IF x = k THEN Get(d, k) + n ELSE d[x]]

\* d.setdefault(k, v)
SetDefault(d, k, v) ==
    [x \in DOMAIN d \cup {k} |-> IF x \in DOMAIN d THEN d[x] ELSE v]

RECURSIVE SumValues(_)
SumValues(d) ==
    IF DOMAIN d = {} THEN 0
    ELSE LET k == CHOOSE x \in DOMAIN d : TRUE
         IN  d[k] + SumValues([x \in DOMAIN d \ {k} |-> d[x]])

(***************************************************************************)
(* The strings the code and the inputs name.                               *)
(***************************************************************************)
Plus == <<"+">>
Minus == <<"-">>
Dot == <<".">>
gene == <<"g", "e", "n", "e">>
CDS == <<"C", "D", "S">>

\* filter_type: str | None
None == [given |-> FALSE, value |-> <<>>]
Some(s) == [given |-> TRUE, value |-> s]

(***************************************************************************)
(* Inputs: the lines a GFF file can hold.                                  *)
(***************************************************************************)
RECURSIVE Join(_)
Join(fields) ==
    IF Len(fields) = 1 THEN fields[1]
    ELSE fields[1] \o <<Tab>> \o Join(Tail(fields))

N1 == <<"1">>
N3 == <<"3">>
N4 == <<"4">>
N5 == <<"5">>
N50 == <<"5", "0">>
N100 == <<"1", "0", "0">>
N101 == <<"1", "0", "1">>
N900 == <<"9", "0", "0">>

\* the nine columns of a feature line
Cols(type, start, end, strand) ==
    <<(<<"c">>), (<<"s">>), type, start, end, Dot, strand, Dot, (<<"a">>)>>

Feature(type, start, end, strand) ==
    Join(Cols(type, start, end, strand)) \o <<Newline>>

\* gene lengths 900 and 0; CDS lengths 101, 51 and -1
Spans ==
    {<<gene, N1, N900>>, <<gene, N5, N4>>,
     <<CDS, N1, N101>>, <<CDS, N50, N100>>, <<CDS, N5, N3>>}

FeatureLines ==
    {Feature(sp[1], sp[2], sp[3], st) : sp \in Spans, st \in {Plus, Minus, Dot}}

OddLines ==
    { <<Newline>>,
      <<Space, Tab, Newline>>,
      <<"#", "#", Newline>>,
      <<"#">> \o Feature(gene, N1, N900, Plus),
      <<Space, "#">> \o Feature(gene, N1, N900, Plus),
      \* eight columns
      Join(<<(<<"c">>), (<<"s">>), gene, N1, N900, Dot, Plus, Dot>>) \o <<Newline>>,
      \* nine columns, the last one empty
      Join(<<(<<"c">>), (<<"s">>), gene, N1, N900, Dot, Plus, Dot, (<<>>)>>) \o <<Newline>>,
      \* nine columns, the first one empty
      Join(<<(<<>>), (<<"s">>), gene, N1, N900, Dot, Plus, Dot, (<<"a">>)>>) \o <<Newline>>,
      \* ten columns, the first one empty
      <<Tab>> \o Feature(CDS, N1, N101, Minus),
      \* ten columns
      Join(Cols(CDS, N50, N100, Plus) \o <<(<<"b">>)>>) \o <<Newline>>,
      \* start or end that int() rejects
      Feature(gene, <<"x">>, N900, Plus),
      Feature(CDS, N1, <<"1", ".", "5">>, Minus),
      Feature(gene, <<>>, N900, Plus),
      Feature(gene, N1, <<"9", "_", "_", "0">>, Plus),
      \* start and end that int() accepts
      Feature(gene, <<"+", "1">>, <<"9", "_", "0", "_", "0">>, Minus),
      Feature(CDS, <<Space, "5">>, <<"-", "0", "3", Space>>, Plus),
      \* another strand symbol, an empty feature type
      Feature(gene, N1, N900, <<"?">>),
      Feature(<<>>, N1, N900, Plus),
      \* a last line without newline
      Join(Cols(CDS, N1, N101, Plus)) }

Lines == FeatureLines \cup OddLines

StrandLines ==
    {Feature(gene, N1, N900, st) : st \in {Plus, Minus, Dot}}
        \cup {Feature(CDS, N1, N101, Plus)}

\* the lines dealt to the two shards: accepted, filtered out and discarded
ShardLines ==
    { Feature(gene, N1, N900, Plus),
      Feature(gene, N5, N4, Minus),
      Feature(CDS, N1, N101, Minus),
      Feature(CDS, N5, N3, Dot),
      Feature(gene, <<"x">>, N900, Plus),
      <<"#", "#", Newline>>,
      Join(Cols(CDS, N1, N101, Plus)) }

AllLines == Lines \cup StrandLines \cup ShardLines

(***************************************************************************)
(* line.strip(), line.split("\t") and int() tabulated over the inputs.     *)
(***************************************************************************)
StripOf == [l \in AllLines |-> Strip(l)]

SplitOf == [l \in AllLines |-> Split(Strip(l))]

IntArgs ==
    UNION {{SplitOf[l][4], SplitOf[l][5]} :
               l \in {x \in AllLines : Len(SplitOf[x]) >= 5}}

IntOf ==
    [s \in IntArgs |->
        [raises |-> IntRaises(s),
         value |-> IF IntRaises(s) THEN 0 ELSE IntValue(s)]]

Filters == {None, Some(<<>>), Some(gene), Some(CDS)}

(***************************************************************************)
(* The state of compute_stats_from_gff.                                    *)
(***************************************************************************)
VARIABLES
    filter_type,      \* the filter_type argument
    pc,               \* "reading" (in the for loop), "done" (returned), "raised"
    line,             \* the line last read from fh, as read
    nread,            \* number of lines read from fh
    total,            \* total
    counts,           \* counts
    length_sums,      \* length_sums
    strand_counts,    \* strand_counts
    result,           \* the returned dictionary
    seen_records,     \* history: feature type -> records read with 9+ columns and integer start, end
    accepted_lengths, \* history: feature type -> sum of end - start + 1 over the records that passed the filter
    shard_a,          \* total, counts, length_sums, strand_counts of a pass over the lines dealt to shard A alone
    shard_b           \* the same for the lines dealt to shard B alone

vars == <<filter_type, pc, line, nread, total, counts, length_sums,
          strand_counts, result, seen_records, accepted_lengths,
          shard_a, shard_b>>

shards == <<shard_a, shard_b>>

aggregate == <<total, counts, length_sums, strand_counts>>

(***************************************************************************)
(* The tests of the loop body.                                             *)
(***************************************************************************)
MinCols == 9

\* if not line or line.startswith("#")
IsSkipped(stripped) == stripped = <<>> \/ StartsWithHash(stripped)

TooFewColsOffByOne(cols) == Len(cols) < MinCols - 1

\* if len(cols) < 9
TooFewCols(cols) == Len(cols) < MinCols

\* truth value of filter_type: None and "" are false
FilterActive(ft) == ft.given /\ ft.value # <<>>

\* if filter_type and feature_type != filter_type
FilterRejects(ft, feature_type) ==
    FilterActive(ft) /\ feature_type # ft.value

\* the exception raised by int(cols[3]), int(cols[4]) (0-based), or "none"
ParseError(cols) ==
    IF IntOf[cols[4]].raises \/ IntOf[cols[5]].raises
    THEN "ValueError"
    ELSE "none"

\* except ValueError
Caught(exc) == exc = "ValueError"

LengthExclusive(start, end) == end - start

\* length = end - start + 1
Length(start, end) == end - start + 1

IncrTotalNot(t) == t

\* total += 1
IncrTotal(t) == t + 1

CountsStrandPlusOnly(strand) == strand = Plus

\* if strand in ("+", "-")
CountsStrand(strand) == strand \in {Plus, Minus}

\* strand_counts after the if/else of lines 133-137
UpdateStrands(sc, strand) ==
    IF CountsStrand(strand) THEN Incr(sc, strand, 1) ELSE SetDefault(sc, Dot, 0)

(***************************************************************************)
(* The aggregate calculations after the loop.                              *)
(***************************************************************************)
RoundHalfUp(n, d) ==
    LET q == n \div d
        r == n % d
    IN  IF 2 * r < d THEN q ELSE q + 1

\* round() of the quotient n / d, d > 0: nearest integer, ties to even
RoundHalfEven(n, d) ==
    LET q == n \div d
        r == n % d
    IN  IF 2 * r < d THEN q
        ELSE IF 2 * r > d THEN q + 1
        ELSE IF q % 2 = 0 THEN q ELSE q + 1

\* round(length_sums[k] / counts[k], 1), in tenths.  The float quotient
\* rounds as the exact quotient does while counts[k] < 20.
AvgLength(sum, n) == RoundHalfEven(10 * sum, n)

AvgLengthsNonzero(cnt, sums) ==
    [k \in {x \in DOMAIN cnt : Get(sums, x) # 0} |->
        AvgLength(Get(sums, k), cnt[k])]

\* avg_length = {k: ... for k in counts} if counts else {}
AvgLengths(cnt, sums) ==
    IF DOMAIN cnt # {}
    THEN [k \in DOMAIN cnt |-> AvgLength(Get(sums, k), cnt[k])]
    ELSE EmptyDict

TotalStrandsPlusOnly(sc) == Get(sc, Plus)

\* total_strands = sum(v for k, v in strand_counts.items() if k in ("+", "-"))
TotalStrands(sc) == Get(sc, Plus) + Get(sc, Minus)

HasStrandsAlways(ts) == TRUE

\* if total_strands
HasStrands(ts) == ts # 0

\* int(round(100 * strand_counts.get(s, 0) / total_strands))
Percent(count, ts) == RoundHalfEven(100 * count, ts)

StrandDistribution(sc) ==
    LET ts == TotalStrands(sc)
    IN  IF HasStrands(ts)
        THEN [s \in {Plus, Minus} |-> Percent(Get(sc, s), ts)]
        ELSE [s \in {Plus, Minus} |-> 0]

\* a division of the aggregate calculations has a zero divisor
DivisionByZero(cnt, sc) ==
    \/ \E k \in DOMAIN cnt : cnt[k] = 0
    \/ HasStrands(TotalStrands(sc)) /\ TotalStrands(sc) = 0

BaseResult(t, cnt, sums, sc) ==
    [total_features |-> t,
     by_type |-> cnt,
     avg_length |-> AvgLengths(cnt, sums),
     strand_distribution |-> StrandDistribution(sc)]

\* the result dictionary, with filter_type added if filter_type is true
Result(ft, t, cnt, sums, sc) ==
    IF FilterActive(ft)
    THEN [total_features |-> t,
          by_type |-> cnt,
          avg_length |-> AvgLengths(cnt, sums),
          strand_distribution |-> StrandDistribution(sc),
          filter_type |-> ft.value]
    ELSE BaseResult(t, cnt, sums, sc)

(***************************************************************************)
(* History of the input, read off each line independently of the loop's    *)
(* branches: a record is a line that, trimmed, is neither blank nor a      *)
(* comment, has 9 or more tab-separated fields and integer start and end.  *)
(***************************************************************************)
RecordCols(l) == SplitOf[l]

IsBlank(l) == StripOf[l] = <<>>

IsComment(l) == StripOf[l] # <<>> /\ Head(StripOf[l]) = "#"

IsShort(l) == Len(RecordCols(l)) < 9

HasBadInt(l) ==
    Len(RecordCols(l)) >= 5 /\
        (IntOf[RecordCols(l)[4]].raises \/ IntOf[RecordCols(l)[5]].raises)

IsDiscarded(l) == IsBlank(l) \/ IsComment(l) \/ IsShort(l) \/ HasBadInt(l)

IsRecord(l) == ~IsDiscarded(l)

RecordType(l) == RecordCols(l)[3]

RecordLength(l) ==
    IntOf[RecordCols(l)[5]].value - IntOf[RecordCols(l)[4]].value + 1

RecordStrand(l) == RecordCols(l)[7]

PassesFilter(l, ft) == FilterActive(ft) => RecordType(l) = ft.value

IsAccepted(l, ft) == IsRecord(l) /\ PassesFilter(l, ft)

(***************************************************************************)
(* The loop as a function of the containers, for a pass over a shard of    *)
(* the input.                                                              *)
(***************************************************************************)
\* lines 82-85
Fresh ==
    [total |-> 0, counts |-> EmptyDict, length_sums |-> EmptyDict,
     strand_counts |-> EmptyDict]

\* the containers after one iteration of lines 89-137 on line l
LoopBody(st, l, ft) ==
    LET stripped == StripOf[l]
        cols == SplitOf[l]
    IN  IF IsSkipped(stripped) THEN st
        ELSE IF TooFewCols(cols) THEN st
        ELSE IF FilterRejects(ft, cols[3]) THEN st
        ELSE IF ParseError(cols) # "none" THEN st
        ELSE [total |-> IncrTotal(st.total),
              counts |-> Incr(st.counts, cols[3], 1),
              length_sums |->
                  Incr(st.length_sums, cols[3],
                       Length(IntOf[cols[4]].value, IntOf[cols[5]].value)),
              strand_counts |-> UpdateStrands(st.strand_counts, cols[7])]

(***************************************************************************)
(* Initial state: lines 82-85, before the first line is read.              *)
(***************************************************************************)
Init ==
    /\ filter_type \in Filters
    /\ pc = "reading"
    /\ line = <<>>
    /\ nread = 0
    /\ total = 0
    /\ counts = EmptyDict
    /\ length_sums = EmptyDict
    /\ strand_counts = EmptyDict
    /\ result = <<>>
    /\ seen_records = EmptyDict
    /\ accepted_lengths = EmptyDict
    /\ shard_a = Fresh
    /\ shard_b = Fresh

\* fh yields a further line only after a line that ended with a newline
MoreLines == IF nread = 0 THEN TRUE ELSE line[Len(line)] = Newline

\* continue
Continue ==
    /\ pc' = pc
    /\ UNCHANGED aggregate

\* lines 121-137
Accumulate(feature_type, length, strand) ==
    /\ pc' = pc
    /\ total' = IncrTotal(total)
    /\ counts' = Incr(counts, feature_type, 1)
    /\ length_sums' = Incr(length_sums, feature_type, length)
    /\ strand_counts' = UpdateStrands(strand_counts, strand)

\* the history of the records read
Remember(l) ==
    /\ seen_records' =
           IF IsRecord(l) THEN Incr(seen_records, RecordType(l), 1)
           ELSE seen_records
    /\ accepted_lengths' =
           IF IsAccepted(l, filter_type)
           THEN Incr(accepted_lengths, RecordType(l), RecordLength(l))
           ELSE accepted_lengths

\* one iteration of "for line in fh", lines 89-137
Ingest(l) ==
    /\ pc = "reading"
    /\ MoreLines
    /\ line' = l
    /\ nread' = nread + 1
    /\ LET stripped == StripOf[l]
           cols == SplitOf[l]
       IN  IF IsSkipped(stripped) THEN Continue
           ELSE IF TooFewCols(cols) THEN Continue
           ELSE IF FilterRejects(filter_type, cols[3]) THEN Continue
           ELSE IF ParseError(cols) # "none"
                THEN IF Caught(ParseError(cols)) THEN Continue
                     ELSE pc' = "raised" /\ UNCHANGED aggregate
           ELSE Accumulate(cols[3],
                           Length(IntOf[cols[4]].value, IntOf[cols[5]].value),
                           cols[7])
    /\ Remember(l)
    /\ UNCHANGED <<filter_type, result>>

\* end of file: lines 139-177
Finalize ==
    /\ pc = "reading"
    /\ IF DivisionByZero(counts, strand_counts)
       THEN pc' = "raised" /\ result' = result
       ELSE /\ pc' = "done"
            /\ result' = Result(filter_type, total, counts, length_sums,
                                strand_counts)
    /\ UNCHANGED <<filter_type, line, nread, aggregate, seen_records,
                   accepted_lengths, shards>>

ReadLine ==
    /\ nread < MaxLines
    /\ \E l \in Lines : Ingest(l)
    /\ UNCHANGED shards

ReadStrandLine ==
    /\ nread < MaxStrandLines
    /\ \E l \in StrandLines : Ingest(l)
    /\ UNCHANGED shards

\* the line read is also given to a separate pass over shard A
ReadShardALine ==
    /\ nread < MaxShardLines
    /\ \E l \in ShardLines :
           /\ Ingest(l)
           /\ shard_a' = LoopBody(shard_a, l, filter_type)
    /\ shard_b' = shard_b

\* the line read is also given to a separate pass over shard B
ReadShardBLine ==
    /\ nread < MaxShardLines
    /\ \E l \in ShardLines :
           /\ Ingest(l)
           /\ shard_b' = LoopBody(shard_b, l, filter_type)
    /\ shard_a' = shard_a

Next == ReadLine \/ Finalize

NextStrand == ReadStrandLine \/ Finalize

NextShard == ReadShardALine \/ ReadShardBLine \/ Finalize

Spec == Init /\ [][Next]_vars

SpecStrand == Init /\ [][NextStrand]_vars

SpecShard == Init /\ [][NextShard]_vars

(***************************************************************************)
(* Properties.                                                             *)
(***************************************************************************)
Abs(x) == IF x < 0 THEN 0 - x ELSE x

\* C1: total equals the sum of the values of counts after every ingest
\* step, and total_features equals the sum of the values of by_type in the
\* report, whatever lines were read and whatever the filter.
C1_TotalIsSumOfCounts ==
    /\ total = SumValues(counts)
    /\ pc = "done" => result.total_features = SumValues(result.by_type)

\* a report after an accepted record, a filtered-out record and more
C1_Witness ==
    /\ pc = "done"
    /\ FilterActive(filter_type)
    /\ result.total_features = 2
    /\ SumValues(seen_records) = 3

\* C2: for every filter string X supplied, a record whose feature type
\* differs from X changes no counter, and the report has by_type with no key
\* other than X and total_features equal to the number of records (9 or more
\* fields, integer start and end) of type X.
C2_SuppliedFilterRestricts ==
    [][filter_type.given =>
        /\ (nread' = nread + 1 /\ IsRecord(line')
              /\ RecordType(line') # filter_type.value)
               => UNCHANGED aggregate
        /\ pc' = "done" =>
               /\ DOMAIN result'.by_type \subseteq {filter_type.value}
               /\ result'.total_features =
                      Get(seen_records', filter_type.value)]_vars

\* C3: the report has the key filter_type, holding the filter string, if and
\* only if a filter string was supplied.
C3_FilterKeyIffSupplied ==
    pc = "done" =>
        /\ ("filter_type" \in DOMAIN result) <=> filter_type.given
        /\ filter_type.given => result.filter_type = filter_type.value

\* C4: reading a discarded line (blank or comment after trimming, fewer than
\* 9 fields, non-integer start or end) leaves total, counts, length_sums and
\* strand_counts unchanged and raises nothing.
C4_DiscardedLineChangesNothing ==
    [][(nread' = nread + 1 /\ IsDiscarded(line'))
           => (UNCHANGED aggregate /\ pc' = "reading")]_vars

\* a line with a non-integer start or end read after an accepted record
C4_Witness ==
    /\ pc = "reading"
    /\ total >= 1
    /\ nread >= 2
    /\ HasBadInt(line)
    /\ ~IsShort(line)

\* C5: strand_distribution has exactly the keys "+" and "-", each value is
\* an integer from 0 to 100, and both are 0 when no accepted record has
\* strand "+" or "-".
C5_StrandDistributionRange ==
    pc = "done" =>
        /\ DOMAIN result.strand_distribution = {Plus, Minus}
        /\ \A s \in {Plus, Minus} : result.strand_distribution[s] \in 0..100
        /\ (Get(strand_counts, Plus) = 0 /\ Get(strand_counts, Minus) = 0)
               => \A s \in {Plus, Minus} : result.strand_distribution[s] = 0

\* a report of 67 and 33 percent where a record with another strand was read
C5_Witness ==
    /\ pc = "done"
    /\ Dot \in DOMAIN strand_counts
    /\ result.strand_distribution[Plus] = 67
    /\ result.strand_distribution[Minus] = 33

\* C6: after an input without any accepted record the function returns, and
\* the report has total_features 0, empty by_type and avg_length and 0 for
\* both strands; no division by zero is raised.
C6_EmptyInputReport ==
    (pc # "reading" /\ DOMAIN accepted_lengths = {}) =>
        /\ pc = "done"
        /\ result.total_features = 0
        /\ result.by_type = EmptyDict
        /\ result.avg_length = EmptyDict
        /\ result.strand_distribution = [s \in {Plus, Minus} |-> 0]

\* a report after three lines, all filtered out or discarded
C6_Witness ==
    /\ pc = "done"
    /\ nread = 3
    /\ DOMAIN accepted_lengths = {}
    /\ DOMAIN seen_records # {}
    /\ IsDiscarded(line)

\* C7: for every feature type k of by_type, avg_length[k] is the sum of
\* end - start + 1 over the accepted records of type k divided by
\* by_type[k], rounded to the nearest tenth; lengths 101, 51, 101 give 84.3
\* and lengths 900, 900 give 900.0.
C7_AvgLengthIsRoundedMean ==
    pc = "done" =>
        \A k \in DOMAIN result.by_type :
            /\ k \in DOMAIN result.avg_length
            /\ LET sum == Get(accepted_lengths, k)
                   n == result.by_type[k]
                   avg == result.avg_length[k]
               IN  /\ 2 * Abs(10 * sum - avg * n) <= n
                   /\ (sum = 253 /\ n = 3) => avg = 843
                   /\ (sum = 1800 /\ n = 2) => avg = 9000

\* the CDS records of lengths 101, 51 and 101
C7_Witness ==
    /\ pc = "done"
    /\ CDS \in DOMAIN result.by_type
    /\ result.by_type[CDS] = 3
    /\ accepted_lengths[CDS] = 253
    /\ result.avg_length[CDS] = 843

\* C8: counts and length_sums always have the same keys; in the report
\* by_type and avg_length have the same keys, which are the feature types of
\* the accepted records, all of them seen in the input, and none other than
\* X when the filter X is active.
C8_SameKeySets ==
    /\ DOMAIN counts = DOMAIN length_sums
    /\ pc = "done" =>
           /\ DOMAIN result.by_type = DOMAIN result.avg_length
           /\ DOMAIN result.by_type = DOMAIN accepted_lengths
           /\ DOMAIN result.by_type \subseteq DOMAIN seen_records
           /\ FilterActive(filter_type) =>
                  DOMAIN result.by_type \subseteq {filter_type.value}

\* a filtered report where two feature types were read, one of them kept
\* with a length sum of zero
C8_Witness ==
    /\ pc = "done"
    /\ FilterActive(filter_type)
    /\ DOMAIN result.by_type = {gene}
    /\ length_sums[gene] = 0
    /\ Cardinality(DOMAIN seen_records) = 2

\* C9 as amended: each percentage is rounded on its own, to the nearest
\* integer with ties to even, and whenever a "+" or "-" record was accepted
\* the two percentages sum to exactly 100.
C9_PercentagesSumTo100 ==
    (pc = "done" /\ Get(strand_counts, Plus) + Get(strand_counts, Minus) > 0)
        => result.strand_distribution[Plus]
               + result.strand_distribution[Minus] = 100

\* one "+" and seven "-": 12.5 and 87.5 round to 12 and 88
C9_Witness ==
    /\ pc = "done"
    /\ Get(strand_counts, Plus) = 1
    /\ Get(strand_counts, Minus) = 7
    /\ result.strand_distribution[Plus] = 12
    /\ result.strand_distribution[Minus] = 88

\* C9 as stated: some tallies with total_strands > 0 give percentages whose
\* sum differs from 100.
C9_SomeSplitMissesHundred ==
    \E p, m \in 0..(10 * MaxStrandLines) :
        /\ p + m > 0
        /\ LET sd == StrandDistribution(Incr(Incr(strand_counts, Plus, p),
                                             Minus, m))
           IN  sd[Plus] + sd[Minus] # 100

\* C10: reading an accepted record adds 1 to total and to counts of its
\* type, adds end - start + 1 to length_sums of its type, adds 1 to the
\* tally of its strand only if the strand is "+" or "-", and leaves the
\* other feature types and the other strand's tally as they were.
C10_AcceptedRecordEffect ==
    [][(nread' = nread + 1 /\ IsAccepted(line', filter_type)) =>
        LET type == RecordType(line')
            strand == RecordStrand(line')
            others == (DOMAIN counts \cup DOMAIN counts'
                         \cup DOMAIN length_sums \cup DOMAIN length_sums')
                          \ {type}
        IN  /\ pc' = "reading"
            /\ total' = total + 1
            /\ type \in DOMAIN counts' /\ type \in DOMAIN length_sums'
            /\ counts'[type] = Get(counts, type) + 1
            /\ length_sums'[type] =
                   Get(length_sums, type) + RecordLength(line')
            /\ \A k \in others :
                   /\ k \in DOMAIN counts /\ k \in DOMAIN counts'
                   /\ k \in DOMAIN length_sums /\ k \in DOMAIN length_sums'
                   /\ counts'[k] = counts[k]
                   /\ length_sums'[k] = length_sums[k]
            /\ \A s \in {Plus, Minus} :
                   Get(strand_counts', s) =
                       Get(strand_counts, s) + (IF s = strand THEN 1 ELSE 0)]_vars

\* a record with end < start and strand "." accepted after two others
C10_Witness ==
    /\ pc = "reading"
    /\ nread = 3
    /\ IsAccepted(line, filter_type)
    /\ RecordLength(line) < 0
    /\ RecordStrand(line) = Dot
    /\ total = 3
    /\ Cardinality(DOMAIN counts) = 2
    /\ Get(strand_counts, Plus) + Get(strand_counts, Minus) = 2

\* elementwise sum of two dictionaries
MergeDicts(d1, d2) ==
    [k \in DOMAIN d1 \cup DOMAIN d2 |-> Get(d1, k) + Get(d2, k)]

\* elementwise sum of the containers of two passes
MergeStates(s1, s2) ==
    [total |-> s1.total + s2.total,
     counts |-> MergeDicts(s1.counts, s2.counts),
     length_sums |-> MergeDicts(s1.length_sums, s2.length_sums),
     strand_counts |-> MergeDicts(s1.strand_counts, s2.strand_counts)]

\* C11: however the lines read are dealt to two shards A and B (A before B,
\* B before A or interleaved), total, counts, length_sums and the "+" and
\* "-" tallies of the pass over all the lines are the elementwise sums of
\* those of a pass over A alone and a pass over B alone, and the report is
\* the one computed from the summed containers, so it is the same for every
\* order of the lines.
C11_StateIsSumOfShards ==
    LET merged == MergeStates(shard_a, shard_b)
    IN  /\ total = merged.total
        /\ counts = merged.counts
        /\ length_sums = merged.length_sums
        /\ \A s \in {Plus, Minus} :
               Get(strand_counts, s) = Get(merged.strand_counts, s)
        /\ pc = "done" =>
               result = Result(filter_type, merged.total, merged.counts,
                               merged.length_sums, merged.strand_counts)

\* a report after four lines where both shards hold accepted gene records
\* and a line was discarded or filtered out
C11_Witness ==
    /\ pc = "done"
    /\ nread = 4
    /\ total = 3
    /\ gene \in DOMAIN shard_a.counts
    /\ gene \in DOMAIN shard_b.counts
    /\ shard_a.total + shard_b.total = 3
    /\ Get(shard_b.strand_counts, Minus) = 1
====
